---------------------------- MODULE Spec2Model ----------------------------
(***************************************************************************)
(* file_timeliner.py: walk a directory tree, lstat every file found, sort  *)
(* the records by one timestamp, write them to a pipe-delimited file and   *)
(* plot them.                                                              *)
(*                                                                         *)
(* The state is the file system the run reads (the tree under PATH, every  *)
(* entry's lstat result, the output file), the parsed arguments, and       *)
(* main's position and locals.  Every function of the program is an        *)
(* operator computed as the code computes it; every step of main is an     *)
(* action.                                                                 *)
(*                                                                         *)
(* Text is a sequence of characters.  A character is a one-character       *)
(* string; a run of characters none of which the csv dialect treats        *)
(* specially ("Created Time", ".txt", "root") is written as one element.   *)
(***************************************************************************)
EXTENDS Integers, Sequences, FiniteSets

VARIABLES
    fs,             \* the directory tree under PATH and each entry's lstat result
    args,           \* argparse.Namespace: max_depth, filter_extension, human_readable, sort
    pc,             \* main's position
    todo,           \* what the search_files generator has still to yield
    file_metadata,  \* main's list of get_stat results
    outFile,        \* the file at output_path: [exists, content]
    answer,         \* what the user did at the overwrite prompt, "" before it
    confirmed,      \* what confirm_overwrite returned: "unasked", "true", "false"
    exit_status,    \* the process's exit status, "running" until it ends
    message,        \* what the run printed last on ending
    calls,          \* history: the functions and phases the run has entered
    collected,      \* history: file_metadata as collected, before the sort
    outFile0        \* history: the output file as the run found it

vars == <<fs, args, pc, todo, file_metadata, outFile, answer, confirmed,
          exit_status, message, calls, collected, outFile0>>

---------------------------------------------------------------------------
(* Bounds of the model. *)

\* entries (files, directories, others) in a tree of SpecSearch
MaxEntries == 3
\* the largest finite --max-depth tried
MaxDepth == 2
\* entries in a tree of Spec
MaxRunEntries == 2
\* files in the flat directory of SpecSort
MaxFiles == 3
\* files in the flat directory of SpecCsv
MaxCsvFiles == 2
\* timestamps run over whole seconds FirstSecond .. FirstSecond + MaxSecond
MaxSecond == 1
\* and over tenths of a second 0 .. MaxTenth
MaxTenth == 1

\* the first whole second: with MaxSecond >= 1 the timestamps cross a minute
FirstSecond == 59

---------------------------------------------------------------------------
(* Optional values: Python's None, and a value that is not None. *)

None == [isNone |-> TRUE]
Some(x) == [isNone |-> FALSE, v |-> x]

Range(s) == {s[i] : i \in DOMAIN s}

RECURSIVE SortedSeq(_)
SortedSeq(S) ==
    IF S = {} THEN <<>>
    ELSE LET m == CHOOSE x \in S : \A y \in S : x <= y
         IN  <<m>> \o SortedSeq(S \ {m})

---------------------------------------------------------------------------
(* The file system.  Entry 0 is PATH itself; entries 1..fs.n lie under it. *)
(* pathlib's view of an entry: is_file(), is_dir(), suffix, iterdir().     *)
(* The entries form a tree: no symbolic link leads back into it, every     *)
(* directory can be listed, and nothing changes the tree during the run.   *)

Root == 0

Kinds == {"file", "dir", "other"}
Suffixes == {"", ".txt"}

is_file(entry) == fs.kind[entry] = "file"
is_dir(entry) == fs.kind[entry] = "dir"
suffix(entry) == fs.suffix[entry]

\* Path.iterdir(): the entries of a directory, in the platform's order
iterdir(base_path) ==
    SortedSeq({e \in 1..fs.n : fs.parent[e] = base_path})

---------------------------------------------------------------------------
(* search_files                                                            *)

\* line 202: the call returns at once, yielding nothing
returns_early_flipped(max_depth) ==
    ~max_depth.isNone /\ max_depth.v > 0 /\ max_depth.v # -1

returns_early(max_depth) ==
    ~max_depth.isNone /\ max_depth.v < 0 /\ max_depth.v # -1

\* line 209: the depth a recursive call is given
recursion_depth_decrementing(max_depth) ==
    IF max_depth.isNone THEN None ELSE Some(max_depth.v - 1)

recursion_depth(max_depth) ==
    IF max_depth.isNone \/ max_depth.v = -1 THEN None ELSE Some(max_depth.v - 1)

\* search_files with the extension test made before the is_file/is_dir test
RECURSIVE search_files_pruning(_, _, _)
search_files_pruning(base_path, max_depth, filter_extension) ==
    IF returns_early(max_depth) THEN <<>>
    ELSE
        LET entries == iterdir(base_path)
            RECURSIVE loop(_)
            loop(i) ==
                IF i > Len(entries) THEN <<>>
                ELSE
                    LET entry == entries[i]
                        yielded ==
                            IF ~(filter_extension.isNone \/ suffix(entry) = filter_extension.v)
                            THEN <<>>
                            ELSE IF is_file(entry) THEN <<entry>>
                            ELSE IF is_dir(entry)
                            THEN search_files_pruning(entry, recursion_depth(max_depth),
                                                      filter_extension)
                            ELSE <<>>
                    IN  yielded \o loop(i + 1)
        IN  loop(1)

\* the sequence of paths the generator yields
RECURSIVE search_files(_, _, _)
search_files(base_path, max_depth, filter_extension) ==
    IF returns_early(max_depth) THEN <<>>
    ELSE
        LET entries == iterdir(base_path)
            RECURSIVE loop(_)
            loop(i) ==
                IF i > Len(entries) THEN <<>>
                ELSE
                    LET entry == entries[i]
                        yielded ==
                            IF is_file(entry)
                               /\ (filter_extension.isNone \/ suffix(entry) = filter_extension.v)
                            THEN <<entry>>
                            ELSE IF is_dir(entry)
                            THEN search_files(entry, recursion_depth(max_depth),
                                              filter_extension)
                            ELSE <<>>
                    IN  yielded \o loop(i + 1)
        IN  loop(1)

---------------------------------------------------------------------------
(* Values.  A FileRecord is the five-element list get_stat returns; each   *)
(* element carries its Python type, which sort_key and str() look at.      *)
(* A timestamp is a float of seconds: whole seconds and tenths.            *)

PathVal(entry) == [type |-> "Path", entry |-> entry]
IntVal(n) == [type |-> "int", n |-> n]
FloatVal(t) == [type |-> "float", sec |-> t.sec, tenth |-> t.tenth]
StrVal(s) == [type |-> "str", s |-> s]

Digit(d) == <<"0", "1", "2", "3", "4", "5", "6", "7", "8", "9">>[d + 1]

\* datetime.fromtimestamp(value, UTC).strftime("%Y-%m-%d %H:%M:%S"), for a
\* value within the first day of 1970: the fraction of a second is dropped
strftime(value) ==
    LET h == (value.sec \div 3600) % 24
        m == (value.sec \div 60) % 60
        s == value.sec % 60
    IN  <<"1", "9", "7", "0", "-", "0", "1", "-", "0", "1", " ",
          Digit(h \div 10), Digit(h % 10), ":",
          Digit(m \div 10), Digit(m % 10), ":",
          Digit(s \div 10), Digit(s % 10)>>

\* str() of a non-negative int
RECURSIVE int_str(_)
int_str(n) ==
    IF n < 10 THEN <<Digit(n)>> ELSE int_str(n \div 10) \o <<Digit(n % 10)>>

\* str() of a float with one decimal: "59.0", "59.1"
float_str(value) == int_str(value.sec) \o <<".", Digit(value.tenth)>>

\* str() of a Path: the entry's name joined to its parent's path
RECURSIVE path_str(_)
path_str(entry) ==
    IF entry = Root THEN <<"root">>
    ELSE path_str(fs.parent[entry]) \o <<"/">> \o fs.stem[entry]
         \o (IF fs.suffix[entry] = "" THEN <<>> ELSE <<fs.suffix[entry]>>)

\* line 225: str(file)
str(value) ==
    CASE value.type = "Path" -> path_str(value.entry)
      [] value.type = "int" -> int_str(value.n)
      [] value.type = "float" -> float_str(value)
      [] value.type = "str" -> value.s

\* ord() of the characters of a formatted timestamp
ord(c) ==
    CASE c = " " -> 32
      [] c = "-" -> 45
      [] c = "0" -> 48 [] c = "1" -> 49 [] c = "2" -> 50 [] c = "3" -> 51
      [] c = "4" -> 52 [] c = "5" -> 53 [] c = "6" -> 54 [] c = "7" -> 55
      [] c = "8" -> 56 [] c = "9" -> 57
      [] c = ":" -> 58

\* Python's a < b on two str
RECURSIVE str_less(_, _)
str_less(a, b) ==
    IF b = <<>> THEN FALSE
    ELSE IF a = <<>> THEN TRUE
    ELSE IF Head(a) = Head(b) THEN str_less(Tail(a), Tail(b))
    ELSE ord(Head(a)) < ord(Head(b))

\* a < b on two floats
float_less(a, b) ==
    a.sec < b.sec \/ (a.sec = b.sec /\ a.tenth < b.tenth)

---------------------------------------------------------------------------
(* get_stat                                                                *)

\* lines 35-56.  fs.stat[filepath] is what lstat() gives: ok = FALSE when
\* it raises.  ctime is getattr(stat, "st_birthtime", stat.st_ctime).
get_stat(filepath, human_readable) ==
    LET stat == fs.stat[filepath]
    IN  IF ~stat.ok THEN <<>>
        ELSE IF human_readable
        THEN <<PathVal(filepath), IntVal(stat.size), StrVal(strftime(stat.ctime)),
               StrVal(strftime(stat.mtime)), StrVal(strftime(stat.atime))>>
        ELSE <<PathVal(filepath), IntVal(stat.size), FloatVal(stat.ctime),
               FloatVal(stat.mtime), FloatVal(stat.atime)>>

---------------------------------------------------------------------------
(* Sorting                                                                 *)

\* lines 291-297
headers == <<"Path", "Size", "Created Time", "Modified Time", "Access Time">>

\* lines 152-154
sort_argument_to_header(arg) ==
    CASE arg = "ctime" -> "Created Time"
      [] arg = "mtime" -> "Modified Time"
      [] arg = "atime" -> "Access Time"

\* line 311: headers.index(sort_header), counted from 1
index(list, x) == CHOOSE i \in DOMAIN list : list[i] = x /\ \A j \in 1..(i - 1) : list[j] # x

\* lines 170-173; the caller sees IndexError when file_info is []
sort_key(file_info, sort_index) ==
    LET value == file_info[sort_index]
    IN  IF value.type = "float" THEN strftime(value) ELSE value.s

\* file_info[sort_index] raises IndexError
raises_index_error(file_info, sort_index) == sort_index > Len(file_info)

\* where a stable sort puts x among the already sorted: after every
\* element whose key is not greater
insert_before_equal(sorted, x, sort_index) ==
    LET k == sort_key(x, sort_index)
        later == {i \in DOMAIN sorted : ~str_less(sort_key(sorted[i], sort_index), k)}
        at == IF later = {} THEN Len(sorted) + 1
              ELSE CHOOSE i \in later : \A j \in later : i <= j
    IN  SubSeq(sorted, 1, at - 1) \o <<x>> \o SubSeq(sorted, at, Len(sorted))

insert(sorted, x, sort_index) ==
    LET k == sort_key(x, sort_index)
        later == {i \in DOMAIN sorted : str_less(k, sort_key(sorted[i], sort_index))}
        at == IF later = {} THEN Len(sorted) + 1
              ELSE CHOOSE i \in later : \A j \in later : i <= j
    IN  SubSeq(sorted, 1, at - 1) \o <<x>> \o SubSeq(sorted, at, Len(sorted))

\* line 312: list.sort(key=...), ascending by key and stable
RECURSIVE list_sort(_, _)
list_sort(list, sort_index) ==
    IF list = <<>> THEN <<>>
    ELSE insert(list_sort(SubSeq(list, 1, Len(list) - 1), sort_index),
                list[Len(list)], sort_index)

---------------------------------------------------------------------------
(* Writing: csv.writer(csvfile, delimiter="|"), the default dialect        *)
(* otherwise (quotechar '"', doubled inside a quoted field, minimal        *)
(* quoting, rows ended by \r\n).                                           *)

Special == {"|", "\"", "\r", "\n"}

RECURSIVE double_quotes(_)
double_quotes(field) ==
    IF field = <<>> THEN <<>>
    ELSE (IF Head(field) = "\"" THEN <<"\"", "\"">> ELSE <<Head(field)>>)
         \o double_quotes(Tail(field))

csv_field(field) ==
    IF \E i \in DOMAIN field : field[i] \in Special
    THEN <<"\"">> \o double_quotes(field) \o <<"\"">>
    ELSE field

RECURSIVE csv_join(_)
csv_join(fields) ==
    IF fields = <<>> THEN <<>>
    ELSE IF Len(fields) = 1 THEN csv_field(fields[1])
    ELSE csv_field(fields[1]) \o <<"|">> \o csv_join(Tail(fields))

\* csvwriter.writerow(row)
writerow(row) == csv_join(row) \o <<"\r", "\n">>

\* lines 223-225: the header row, then one row per record
RECURSIVE write_rows(_)
write_rows(metadata_list) ==
    IF metadata_list = <<>> THEN <<>>
    ELSE writerow([k \in DOMAIN metadata_list[1] |-> str(metadata_list[1][k])])
         \o write_rows(Tail(metadata_list))

\* write_to_csv with the file opened in mode "a"
write_to_csv_appending(old_content, header_row, metadata_list) ==
    old_content \o writerow([k \in DOMAIN header_row |-> <<header_row[k]>>])
    \o write_rows(metadata_list)

\* lines 221-225: the content of the file after write_to_csv; mode "w"
\* drops what the file held
write_to_csv(old_content, header_row, metadata_list) ==
    writerow([k \in DOMAIN header_row |-> <<header_row[k]>>])
    \o write_rows(metadata_list)

---------------------------------------------------------------------------
(* confirm_overwrite                                                       *)

\* lines 178-184.  reply is what the user does at the prompt: "yes", "no"
\* or "interrupt" (KeyboardInterrupt).
confirm_overwrite_interrupt_accepts(exists, reply) ==
    IF exists THEN reply # "no" ELSE TRUE

confirm_overwrite(exists, reply) ==
    IF exists
    THEN (IF reply = "interrupt" THEN FALSE ELSE reply = "yes")
    ELSE TRUE

---------------------------------------------------------------------------
(* The inputs of a run.                                                    *)

Seconds == FirstSecond..(FirstSecond + MaxSecond)
Times == [sec : Seconds, tenth : 0..MaxTenth]

\* the timestamp as far from the last one as t is from the first
mirror(t) ==
    [sec |-> FirstSecond + MaxSecond - (t.sec - FirstSecond), tenth |-> MaxTenth - t.tenth]

\* an lstat result whose three timestamps differ: created t, modified
\* mirror(t), accessed in t's second
StatOf(entry, ok, t) ==
    [ok |-> ok, size |-> 10 * entry, ctime |-> t, mtime |-> mirror(t),
     atime |-> [sec |-> t.sec, tenth |-> MaxTenth - t.tenth]]

FirstTime == [sec |-> FirstSecond, tenth |-> 0]

\* a name no sibling has
DefaultStem(entry) == <<"f">> \o int_str(entry)

\* the trees of n entries: an entry lies in PATH or in an earlier directory
Trees(n) ==
    {t \in [kind : [1..n -> Kinds], parent : [1..n -> 0..n], suffix : [1..n -> Suffixes]] :
        \A e \in 1..n :
            /\ t.parent[e] < e
            /\ t.parent[e] = Root \/ t.kind[t.parent[e]] = "dir"}

\* the directories n flat files make
FlatTrees(n) ==
    [kind : [1..n -> {"file"}], parent : [1..n -> {Root}], suffix : [1..n -> {".txt"}]]

FileSystem(tree, n, stem, stat) ==
    [exists |-> TRUE, n |-> n, kind |-> tree.kind, parent |-> tree.parent,
     suffix |-> tree.suffix, stem |-> stem, stat |-> stat]

MissingRoot ==
    [exists |-> FALSE, n |-> 0, kind |-> <<>>, parent |-> <<>>, suffix |-> <<>>,
     stem |-> <<>>, stat |-> <<>>]

\* SpecSearch: every tree, every lstat succeeding
SearchFileSystem ==
    \E n \in 0..MaxEntries : \E t \in Trees(n) :
        fs = FileSystem(t, n, [e \in 1..n |-> DefaultStem(e)],
                        [e \in 1..n |-> StatOf(e, TRUE, FirstTime)])

\* Spec: lstat may fail on a file (it was removed after iterdir listed
\* it), and the files' timestamps lie in one second
RunStats(tree, n) ==
    {st \in [1..n -> {StatOf(0, ok, [sec |-> FirstSecond, tenth |-> d]) :
                          ok \in BOOLEAN, d \in {0, MaxTenth}}] :
        \A e \in 1..n : tree.kind[e] # "file" => st[e] = StatOf(0, TRUE, FirstTime)}

RunFileSystem ==
    \/ fs = MissingRoot
    \/ \E n \in 0..MaxRunEntries : \E t \in Trees(n) : \E st \in RunStats(t, n) :
           fs = FileSystem(t, n, [e \in 1..n |-> DefaultStem(e)], st)

\* SpecSort: files in one directory, every timestamp
SortFileSystem ==
    \E n \in 1..MaxFiles : \E t \in FlatTrees(n) : \E ts \in [1..n -> Times] :
        fs = FileSystem(t, n, [e \in 1..n |-> DefaultStem(e)],
                        [e \in 1..n |-> StatOf(e, TRUE, ts[e])])

\* SpecCsv: files in one directory whose names hold the characters the csv
\* dialect treats specially; no two files have one name
CsvChars == {"a", "|", "\"", "\n", "\r"}
CsvStems == {<<c>> : c \in CsvChars} \cup {<<c, d>> : c \in CsvChars, d \in CsvChars}

CsvFileSystem ==
    \E n \in 0..MaxCsvFiles : \E t \in FlatTrees(n) : \E stem \in [1..n -> CsvStems] :
        /\ \A e1 \in 1..n : \A e2 \in 1..n : e1 # e2 => stem[e1] # stem[e2]
        /\ fs = FileSystem(t, n, stem, [e \in 1..n |-> StatOf(e, TRUE, FirstTime)])

\* --max-depth: any int, and None (which the function takes, the parser never gives)
Depths == {None} \cup {Some(d) : d \in (-2)..MaxDepth}
Filters == {None, Some(""), Some(".txt"), Some(".log")}
SortArgs == {"atime", "mtime", "ctime"}

SearchArgs ==
    [max_depth : Depths, filter_extension : Filters, human_readable : {FALSE},
     sort : {"atime"}]
RunArgs ==
    [max_depth : {Some(1), Some(-1), Some(-2)}, filter_extension : {None, Some(".txt")},
     human_readable : BOOLEAN, sort : SortArgs]
FlatArgs ==
    [max_depth : {Some(1)}, filter_extension : {None}, human_readable : BOOLEAN,
     sort : SortArgs]
CsvArgs ==
    [max_depth : {Some(1)}, filter_extension : {None}, human_readable : BOOLEAN,
     sort : {"atime"}]

Absent == [exists |-> FALSE, content |-> <<>>]
Present == [exists |-> TRUE, content |-> <<"old", "\r", "\n">>]

---------------------------------------------------------------------------
(* main                                                                    *)

sort_index == index(headers, sort_argument_to_header(args.sort))

Exit(status, text) ==
    /\ pc' = "exited"
    /\ exit_status' = status
    /\ message' = text

\* lines 284-288 and the call of search_files at line 302
Main_Start ==
    /\ pc = "start"
    /\ IF ~fs.exists
       THEN /\ Exit("1", "Directory does not exist")
            /\ UNCHANGED <<todo, calls>>
       ELSE /\ todo' = search_files(Root, args.max_depth, args.filter_extension)
            /\ calls' = calls \cup {"search_files"}
            /\ pc' = "collect"
            /\ UNCHANGED <<exit_status, message>>
    /\ UNCHANGED <<fs, args, file_metadata, outFile, answer, confirmed, collected, outFile0>>

\* lines 300-303: the next path of the generator, and get_stat of it
Main_GetStat ==
    /\ pc = "collect"
    /\ todo # <<>>
    /\ file_metadata' = Append(file_metadata, get_stat(Head(todo), args.human_readable))
    /\ todo' = Tail(todo)
    /\ UNCHANGED <<fs, args, pc, outFile, answer, confirmed, exit_status, message, calls,
                   collected, outFile0>>

\* lines 305-307, the generator exhausted
Main_CheckEmpty ==
    /\ pc = "collect"
    /\ todo = <<>>
    /\ collected' = file_metadata
    /\ IF file_metadata = <<>>
       THEN Exit("1", "No files found matching the criteria.")
       ELSE pc' = "sort" /\ UNCHANGED <<exit_status, message>>
    /\ UNCHANGED <<fs, args, todo, file_metadata, outFile, answer, confirmed, calls, outFile0>>

\* lines 309-312; an IndexError raised by sort_key ends the run with a traceback
Main_Sort ==
    /\ pc = "sort"
    /\ calls' = calls \cup {"sort"}
    /\ IF \E i \in DOMAIN file_metadata : raises_index_error(file_metadata[i], sort_index)
       THEN /\ pc' = "crashed"
            /\ exit_status' = "1"
            /\ message' = "IndexError: list index out of range"
            /\ UNCHANGED file_metadata
       ELSE /\ file_metadata' = list_sort(file_metadata, sort_index)
            /\ pc' = "check_output"
            /\ UNCHANGED <<exit_status, message>>
    /\ UNCHANGED <<fs, args, todo, outFile, answer, confirmed, collected, outFile0>>

\* lines 314-317
Main_CheckOverwrite ==
    /\ pc = "check_output"
    /\ IF outFile.exists
       THEN \E a \in {"yes", "no", "interrupt"} :
                LET ok == confirm_overwrite(outFile.exists, a)
                IN  /\ answer' = a
                    /\ confirmed' = IF ok THEN "true" ELSE "false"
                    /\ calls' = calls \cup {"confirm_overwrite"}
                    /\ IF ~ok
                       THEN Exit("1", "Operation cancelled.")
                       ELSE pc' = "write" /\ UNCHANGED <<exit_status, message>>
       ELSE /\ pc' = "write"
            /\ UNCHANGED <<answer, confirmed, calls, exit_status, message>>
    /\ UNCHANGED <<fs, args, todo, file_metadata, outFile, collected, outFile0>>

\* line 318
Main_Write ==
    /\ pc = "write"
    /\ outFile' = [exists |-> TRUE,
                   content |-> write_to_csv(outFile.content, headers, file_metadata)]
    /\ calls' = calls \cup {"write_to_csv"}
    /\ pc' = "graph"
    /\ UNCHANGED <<fs, args, todo, file_metadata, answer, confirmed, exit_status, message,
                   collected, outFile0>>

\* lines 320-323, and the return from main
Main_Graph ==
    /\ pc = "graph"
    /\ calls' = calls \cup {"create_graph"}
    /\ pc' = "done"
    /\ exit_status' = "0"
    /\ UNCHANGED <<fs, args, todo, file_metadata, outFile, answer, confirmed, message,
                   collected, outFile0>>

---------------------------------------------------------------------------
(* Specifications                                                          *)

Fresh ==
    /\ todo = <<>>
    /\ answer = ""
    /\ exit_status = "running"
    /\ message = ""
    /\ outFile0 = outFile

\* a whole run
Init ==
    /\ RunFileSystem
    /\ args \in RunArgs
    /\ outFile \in {Absent, Present}
    /\ pc = "start"
    /\ file_metadata = <<>>
    /\ confirmed = "unasked"
    /\ calls = {}
    /\ collected = <<>>
    /\ Fresh

Next ==
    \/ Main_Start
    \/ Main_GetStat
    \/ Main_CheckEmpty
    \/ Main_Sort
    \/ Main_CheckOverwrite
    \/ Main_Write
    \/ Main_Graph

Spec == Init /\ [][Next]_vars

\* search_files on every tree, depth and filter
InitSearch ==
    /\ SearchFileSystem
    /\ args \in SearchArgs
    /\ outFile = Absent
    /\ pc = "start"
    /\ file_metadata = <<>>
    /\ confirmed = "unasked"
    /\ calls = {}
    /\ collected = <<>>
    /\ Fresh

SpecSearch == InitSearch /\ [][Main_Start]_vars

\* whole runs over a flat directory with every timestamp: the sort step
InitSort ==
    /\ SortFileSystem
    /\ args \in FlatArgs
    /\ outFile = Absent
    /\ pc = "start"
    /\ file_metadata = <<>>
    /\ confirmed = "unasked"
    /\ calls = {}
    /\ collected = <<>>
    /\ Fresh

SpecSort == InitSort /\ [][Next]_vars

\* whole runs over a flat directory with every file name: write_to_csv
InitCsv ==
    /\ CsvFileSystem
    /\ args \in CsvArgs
    /\ outFile \in {Absent, Present}
    /\ pc = "start"
    /\ file_metadata = <<>>
    /\ confirmed = "unasked"
    /\ calls = {}
    /\ collected = <<>>
    /\ Fresh

SpecCsv == InitCsv /\ [][Next]_vars

---------------------------------------------------------------------------
(* What the claims speak of.                                               *)

\* directory levels between PATH and the entry: 0 for a direct child
RECURSIVE Level(_)
Level(entry) ==
    IF fs.parent[entry] = Root THEN 0 ELSE 1 + Level(fs.parent[entry])

Files == {e \in 1..fs.n : is_file(e)}

Unlimited(max_depth) == max_depth.isNone \/ max_depth.v = -1
Finite(max_depth) == ~max_depth.isNone /\ max_depth.v >= 0

\* search_files has run to its end: todo holds all it yields
Searched == pc = "collect" /\ file_metadata = <<>>

\* the collection is complete: the generator is exhausted and line 305 passed
Collected == "search_files" \in calls /\ pc # "collect"

IsSentinel(file_info) == file_info = <<>>

Count(list, x) == Cardinality({i \in DOMAIN list : list[i] = x})
Position(list, x) == CHOOSE i \in DOMAIN list : list[i] = x

\* the text a record's fields have in the output: the header's columns
TimeText(t) == IF args.human_readable THEN strftime(t) ELSE float_str(t)
RowOf(entry) ==
    <<path_str(entry), int_str(fs.stat[entry].size), TimeText(fs.stat[entry].ctime),
      TimeText(fs.stat[entry].mtime), TimeText(fs.stat[entry].atime)>>

\* Re-parsing the output: csv.reader(csvfile, delimiter="|").  One record
\* is read from position i of the content.  state: "start" of a field,
\* "field" (unquoted), "quoted", "quote" (a quote met inside a quoted
\* field).  The result is the record and the position after its line end.
RECURSIVE read_record(_, _, _, _, _)
read_record(content, i, state, field, row) ==
    IF i > Len(content)
    THEN [fields |-> Append(row, field), next |-> i]
    ELSE
        LET c == content[i]
            inside == state = "quoted"
            closing == state = "quote"
        IN  CASE inside /\ c = "\"" ->
                    read_record(content, i + 1, "quote", field, row)
              [] inside /\ c # "\"" ->
                    read_record(content, i + 1, "quoted", Append(field, c), row)
              [] closing /\ c = "\"" ->
                    read_record(content, i + 1, "quoted", Append(field, c), row)
              [] ~inside /\ c = "|" ->
                    read_record(content, i + 1, "start", <<>>, Append(row, field))
              [] ~inside /\ c = "\r" ->
                    [fields |-> IF state = "start" /\ row = <<>> THEN <<>>
                                ELSE Append(row, field),
                     next |-> IF i < Len(content) /\ content[i + 1] = "\n"
                              THEN i + 2 ELSE i + 1]
              [] ~inside /\ c = "\n" ->
                    [fields |-> IF state = "start" /\ row = <<>> THEN <<>>
                                ELSE Append(row, field),
                     next |-> i + 1]
              [] state = "start" /\ c = "\"" ->
                    read_record(content, i + 1, "quoted", field, row)
              [] ~inside /\ c \notin {"|", "\r", "\n"}
                         /\ ~(c = "\"" /\ state \in {"start", "quote"}) ->
                    read_record(content, i + 1, "field", Append(field, c), row)

\* every record of the content, in order
RECURSIVE reader(_, _)
reader(content, i) ==
    IF i > Len(content) THEN <<>>
    ELSE LET record == read_record(content, i, "start", <<>>, <<>>)
         IN  <<record.fields>> \o reader(content, record.next)

Reparsed == reader(outFile.content, 1)

---------------------------------------------------------------------------
(* The claims                                                              *)

\* C1: with a finite max_depth d >= 0, search_files yields no file more
\* than d directory levels below the root (with d = 0, only the root's own
\* files).
C1_DepthBound ==
    (Searched /\ Finite(args.max_depth)) =>
        \A i \in DOMAIN todo : Level(todo[i]) <= args.max_depth.v

\* C2: when get_stat fails for some entries and succeeds for others, the
\* failed entries are dropped: no failure sentinel is in the collection
\* that goes on to sorting and writing, and the run is not aborted.
C2_FailuresDropped ==
    (Collected /\ (\E i \in DOMAIN collected : IsSentinel(collected[i]))
               /\ (\E i \in DOMAIN collected : ~IsSentinel(collected[i]))) =>
        /\ pc # "crashed"
        /\ \A i \in DOMAIN file_metadata : ~IsSentinel(file_metadata[i])

\* C3: when the output file exists, it is written only after
\* confirm_overwrite returned true; when the user declines or interrupts
\* the prompt the run has ended with status 1, the file is as it was, and
\* neither write_to_csv nor create_graph has run.
C3_OverwriteConfirmed ==
    outFile0.exists =>
        /\ ("write_to_csv" \in calls \/ outFile # outFile0) => confirmed = "true"
        /\ answer \in {"no", "interrupt"} =>
               /\ pc = "exited"
               /\ exit_status = "1"
               /\ message = "Operation cancelled."
               /\ outFile = outFile0
               /\ "write_to_csv" \notin calls
               /\ "create_graph" \notin calls

C3_Declined ==
    /\ outFile0.exists
    /\ answer = "interrupt"
    /\ pc = "exited"
    /\ Len(file_metadata) > 0

\* C4: when no FileRecord was collected, the run has stopped with the "no
\* files found" message and status 1, the output file is untouched, and
\* the sort, the write and the graph were never entered.
C4_EmptyStops ==
    (Collected /\ \A i \in DOMAIN collected : IsSentinel(collected[i])) =>
        /\ pc = "exited"
        /\ message = "No files found matching the criteria."
        /\ exit_status = "1"
        /\ outFile = outFile0
        /\ calls \cap {"sort", "write_to_csv", "create_graph"} = {}

\* C5: with a non-empty extension filter f, the paths yielded are exactly
\* those yielded without a filter whose suffix is f.
C5_FilterSelects ==
    (Searched /\ ~args.filter_extension.isNone /\ args.filter_extension.v # "") =>
        Range(todo) = {p \in Range(search_files(Root, args.max_depth, None)) :
                           suffix(p) = args.filter_extension.v}

C5_FilteredUnderOtherDir ==
    /\ Searched
    /\ args.filter_extension = Some(".txt")
    /\ \E i \in DOMAIN todo :
           /\ fs.parent[todo[i]] # Root
           /\ suffix(fs.parent[todo[i]]) # ".txt"
    /\ \E p \in Range(search_files(Root, args.max_depth, None)) : suffix(p) # ".txt"

\* C6: with max_depth None or -1 and no filter, search_files yields every
\* regular file under the root exactly once, and the depth given to a
\* recursive call is again unlimited and never makes the call return early.
C6_UnlimitedYieldsAll ==
    (Searched /\ Unlimited(args.max_depth) /\ args.filter_extension.isNone) =>
        /\ Range(todo) = Files
        /\ Len(todo) = Cardinality(Files)
        /\ Unlimited(recursion_depth(args.max_depth))
        /\ ~returns_early(recursion_depth(args.max_depth))
        /\ recursion_depth(recursion_depth(args.max_depth)).isNone

C6_DeepFile ==
    /\ Searched
    /\ ~args.max_depth.isNone
    /\ args.max_depth.v = -1
    /\ args.filter_extension.isNone
    /\ \E i \in DOMAIN todo : Level(todo[i]) >= 2

\* C7: with raw timestamps, after the sort a record whose selected
\* timestamp is smaller as a number comes before one whose is larger.
C7_NumericOrder ==
    ("sort" \in calls /\ pc # "crashed" /\ ~args.human_readable) =>
        \A i \in DOMAIN file_metadata : \A j \in DOMAIN file_metadata :
            float_less(file_metadata[i][sort_index], file_metadata[j][sort_index]) => i < j

\* C8: the sort is stable and a permutation: records with the same sort
\* key keep the order the traversal gave them, and no record is added,
\* dropped or duplicated.
C8_StablePermutation ==
    (pc = "check_output") =>
        /\ Len(file_metadata) = Len(collected)
        /\ \A i \in DOMAIN collected :
               Count(file_metadata, collected[i]) = Count(collected, collected[i])
        /\ \A i \in DOMAIN file_metadata : \A j \in DOMAIN file_metadata :
               (i < j /\ sort_key(file_metadata[i], sort_index)
                         = sort_key(file_metadata[j], sort_index)) =>
                   Position(collected, file_metadata[i]) < Position(collected, file_metadata[j])

C8_TiesAndReordering ==
    /\ pc = "check_output"
    /\ Len(file_metadata) = 3
    /\ file_metadata # collected
    /\ \E i \in DOMAIN file_metadata : \E j \in DOMAIN file_metadata :
           /\ i < j
           /\ sort_key(file_metadata[i], sort_index) = sort_key(file_metadata[j], sort_index)
           /\ file_metadata[i][sort_index] # file_metadata[j][sort_index]

\* C9: after write_to_csv of N records the file holds N+1 rows and nothing
\* else: the five labels, then for each record in sorted order its path,
\* size, created, modified and access time; re-parsing gives N data rows.
C9_RoundTrip ==
    (pc = "graph") =>
        LET rows == Reparsed
            N == Len(file_metadata)
        IN  /\ Len(rows) = N + 1
            /\ rows[1] = <<<<"Path">>, <<"Size">>, <<"Created Time">>,
                           <<"Modified Time">>, <<"Access Time">>>>
            /\ \A i \in 1..N : rows[i + 1] = RowOf(file_metadata[i][1].entry)

C9_QuotedOverOld ==
    /\ pc = "graph"
    /\ outFile0.exists
    /\ Len(file_metadata) = 2
    /\ fs.stem[1] = <<"\"", "|">>
    /\ fs.stem[2] = <<"\r", "\n">>

\* C10: for a finite depth d >= 0, everything yielded with max_depth d is
\* yielded with max_depth d + 1.
C10_MonotoneInDepth ==
    (Searched /\ Finite(args.max_depth)) =>
        Range(todo) \subseteq
            Range(search_files(Root, Some(args.max_depth.v + 1), args.filter_extension))

C10_NestedYield ==
    /\ Searched
    /\ Finite(args.max_depth)
    /\ \E i \in DOMAIN todo : Level(todo[i]) >= 1

===========================================================================
